---- MODULE Spec2Model ----
(***************************************************************************)
(* The thread-to-calendar reconciler of orchestration/calendar-sync.py:    *)
(* load_state, cleanup_orphaned_events, sync_thread_to_calendar for every  *)
(* listed thread in sorted order, save_state, exit code.  The calendar     *)
(* command is an external collaborator whose behaviour (exit status and    *)
(* the shape of its combined output) is chosen nondeterministically.       *)
(*                                                                         *)
(* Spec is the reconciler with its record store and calendar.  The pure    *)
(* functions are also exercised on their own, over records the reconciler  *)
(* specification does not enumerate: SpecResolver applies get_deadline,    *)
(* SpecFingerprint applies get_thread_hash and the event rendering to two  *)
(* versions of one task's record.                                          *)
(* versions of one task's record.  SpecTwo starts two reconciler processes *)
(* on the same files and interleaves their steps; SpecClean is the         *)
(* reconciler when no process is killed, no exception leaves main and the  *)
(* calendar command always succeeds.                                       *)
(***************************************************************************)
EXTENDS Integers, Sequences, FiniteSets, TLC

\* ------------------------------------------------------------------ bounds

\* Number of reconciler runs (process starts) explored; also the clock range.
MaxRuns == 3

\* Number of events the external calendar accepts before every create fails.
MaxEvents == 2

\* Task keys (sub-directories of THREADS_DIR), listed in sorted() order.
KeyOrder == <<"t1", "t2">>

Keys == {KeyOrder[i] : i \in 1..Len(KeyOrder)}

\* --------------------------------------------------------------- constants

\* Python's None, and a key missing from a dict (meta.get(...) gives None).
None == "None"

\* The "identity unknown" sentinel returned by create_calendar_event.
CREATED_NO_ID == "created_no_id"

\* Marker for an exception that propagates out of a function.
RAISED == "raised"

PRIORITY_COLORS == [P1 |-> "11", P2 |-> "6", P3 |-> "5", P4 |-> "8"]

\* Priority spellings the environment may write into a record file.
PriorityInputs ==
    {"P1", "p1", "1", "priority-1", "P2", "2", "priority-2",
     "P3", "3", "priority-3", "P4", "4", "urgent", None}

\* str(priority).upper() on the spellings above.
Upper(p) ==
    CASE p = "p1" -> "P1"
      [] p = "priority-1" -> "PRIORITY-1"
      [] p = "priority-2" -> "PRIORITY-2"
      [] p = "priority-3" -> "PRIORITY-3"
      [] p = "urgent" -> "URGENT"
      [] p = None -> "NONE"
      [] OTHER -> p

normalize_priority(priority) ==
    IF priority = None THEN "P4"
    ELSE LET p == Upper(priority) IN
         IF p \in {"P1", "1", "PRIORITY-1"} THEN "P1"
         ELSE IF p \in {"P2", "2", "PRIORITY-2"} THEN "P2"
         ELSE IF p \in {"P3", "3", "PRIORITY-3"} THEN "P3"
         ELSE "P4"

\* PRIORITY_COLORS.get(priority, "8") as used by create/update.
color_id(priority) ==
    IF priority \in DOMAIN PRIORITY_COLORS THEN PRIORITY_COLORS[priority] ELSE "8"

\* Mutant of IsTerminal: "closed" is missing from the list.
IsTerminal_no_closed(status) == status \in {"done", "completed"}

\* status in ["done", "closed", "completed"]
IsTerminal(status) == status \in {"done", "closed", "completed"}

\* Mutant of Addressable: only the truthiness of the id is tested.
Addressable_truthy(event_id) == event_id # None /\ event_id # ""

\* event_id and event_id != "created_no_id": a truthy id that is not the sentinel.
Addressable(event_id) == event_id # None /\ event_id # "" /\ event_id # CREATED_NO_ID

\* ----------------------------------------------------------- task records

\* A record file meta.json: absent (nofile), not JSON (badjson), JSON that is
\* not an object (notobject), or a JSON object (meta) with its fields.
NoFile ==
    [kind |-> "nofile", name |-> None, priority |-> None, status |-> None,
     deadline |-> None, due_date |-> None, labels |-> <<>>,
     description |-> None, notes |-> None,
     sync |-> [github_issue_number |-> None, gdrive_folder_url |-> None,
               calendar_event_id |-> None, calendar_synced_at |-> 0]]

NewMeta(p, s) ==
    [NoFile EXCEPT !.kind = "meta", !.name = "Ship v2", !.priority = p, !.status = s]

\* The labels records use, in Python's string order.
LabelOrder ==
    <<"deadline:2026-03-01", "deadline:soon", "due-2026-03-05", "next-week",
      "this-week", "urgent">>

LabelRank(l) == CHOOSE i \in 1..Len(LabelOrder) : LabelOrder[i] = l

RECURSIVE InsertLabel(_, _)
InsertLabel(x, s) ==
    IF s = <<>> THEN <<x>>
    ELSE IF LabelRank(x) <= LabelRank(Head(s)) THEN <<x>> \o s
    ELSE <<Head(s)>> \o InsertLabel(x, Tail(s))

\* sorted(meta.get("labels", []))
RECURSIVE sorted(_)
sorted(labels) ==
    IF labels = <<>> THEN <<>>
    ELSE InsertLabel(Head(labels), sorted(Tail(labels)))

\* Mutant of get_thread_hash: the fingerprint covers the whole document, the
\* written-back sync fields included.
get_thread_hash_whole(meta) ==
    <<meta.name, normalize_priority(meta.priority), meta.status, meta.deadline,
      sorted(meta.labels), meta.sync>>

\* Mutant of get_thread_hash: the labels are taken in the order listed.
get_thread_hash_unsorted(meta) ==
    <<meta.name, normalize_priority(meta.priority), meta.status, meta.deadline,
      meta.labels>>

\* get_thread_hash: json.dumps of the key fields is injective on them, so the
\* fingerprint is modelled by the tuple of the key fields itself.
get_thread_hash(meta) ==
    <<meta.name, normalize_priority(meta.priority), meta.status, meta.deadline,
      sorted(meta.labels)>>

\* meta.get("status", "active")
StatusOf(meta) == IF meta.status = None THEN "active" ELSE meta.status

\* ------------------------------------------------------ deadline resolver

\* Dates are day numbers counted from 2026-01-01 (day 0, a Thursday): every
\* consumer formats the resolver's result with strftime("%Y-%m-%d").
DEFAULT_DEADLINE_DAYS == 7

\* A strategy that yields no date (Python's None as a date).
NoDate == -1

\* An exception that propagates out of the resolver.
Raises == -2

\* JSON values of a record that are not strings: null and a number.
JsonNull == "<null>"

JsonNumber == "<number 20260301>"

\* datetime.now() of the run: Monday 2026-02-16 and Thursday 2026-02-19.
Nows == {46, 49}

\* datetime.weekday(): Monday is 0.
weekday(now) == (now + 3) % 7

\* datetime.strptime(s, "%Y-%m-%d") on a string: the day, or NoDate for the
\* ValueError of a string that is not a calendar date in that format.
strptime(s) ==
    CASE s = "2026-03-01" -> 59
      [] s = "2026-03-05" -> 63
      [] s = "2026-03-15" -> 73
      [] s = "2026-03-20" -> 78
      [] OTHER -> NoDate

\* str(value) on the values a record field may hold.
Str(value) ==
    CASE value = JsonNull -> "None"
      [] value = JsonNumber -> "20260301"
      [] OTHER -> value

\* text.lower() on the texts records use.
Lower(text) ==
    CASE text = "ship by March 20" -> "ship by march 20"
      [] text = "Due: 2026-03-05" -> "due: 2026-03-05"
      [] OTHER -> text

\* First pattern, (?:deadline|due)[:\s]+(\d{4}-\d{2}-\d{2}): the matched
\* date string, None without a match.
DatePattern(text_lower) ==
    CASE text_lower = "due: 2026-03-05" -> "2026-03-05"
      [] text_lower = "deadline: 2026-13-45" -> "2026-13-45"
      [] OTHER -> None

\* Second pattern, (?:by|due|before) <month> <day>[, <year>], with the year
\* defaulting to the current one (2026 on both clocks): datetime(y, m, d),
\* NoDate without a match or for a day the month does not have.
MonthPattern(text_lower) ==
    CASE text_lower = "ship by march 20" -> strptime("2026-03-20")
      [] text_lower = "by feb 30" -> NoDate
      [] OTHER -> NoDate

\* Third pattern, in\s+(\d+)\s+(day|week|month)s?: now plus the offset; an
\* offset beyond timedelta's range raises OverflowError.
RelativePattern(text_lower, now) ==
    CASE text_lower = "in 3 weeks" -> now + 21
      [] text_lower = "in 99999999999 days" -> Raises
      [] OTHER -> NoDate

extract_deadline_from_text(text, now) ==
    IF text \in {None, JsonNull, ""} THEN NoDate
    ELSE IF text = JsonNumber THEN Raises
    ELSE LET text_lower == Lower(text)
             date_match == DatePattern(text_lower)
             by_date == IF date_match = None THEN NoDate ELSE strptime(date_match)
             by_month == MonthPattern(text_lower)
         IN  IF by_date # NoDate THEN by_date
             ELSE IF by_month # NoDate THEN by_month
             ELSE RelativePattern(text_lower, now)

\* One label of the loop: the date it yields, NoDate to go on to the next one.
LabelDate(label_str, now) ==
    CASE label_str = "deadline:2026-03-01" -> strptime("2026-03-01")
      [] label_str = "deadline:soon" -> strptime("soon")
      [] label_str = "due-2026-03-05" -> strptime("2026-03-05")
      [] label_str = "this-week" -> now + (7 - weekday(now))
      [] label_str = "next-week" -> now + (14 - weekday(now))
      [] OTHER -> NoDate

RECURSIVE extract_deadline_from_labels(_, _)
extract_deadline_from_labels(labels, now) ==
    IF labels = <<>> THEN NoDate
    ELSE LET d == LabelDate(Head(labels), now)
         IN  IF d # NoDate THEN d
             ELSE extract_deadline_from_labels(Tail(labels), now)

\* datetime.fromisoformat(meta["deadline"].replace("Z", "+00:00")): the day,
\* or NoDate for the ValueError of a string that is not an ISO timestamp and
\* the AttributeError of a value that is not a string.
fromisoformat(value) ==
    CASE value = "2026-03-01T10:00:00Z" -> strptime("2026-03-01")
      [] value \in {JsonNull, JsonNumber} -> NoDate
      [] OTHER -> strptime(value)

\* Strategy 1 (lines 179-185); runs when the key "deadline" is present.
ExplicitDeadline(meta, now) ==
    IF meta.deadline = None THEN NoDate
    ELSE LET d == fromisoformat(meta.deadline)
         IN  IF d # NoDate THEN d
             ELSE extract_deadline_from_text(Str(meta.deadline), now)

\* Strategy 2 (lines 188-192): only ValueError is caught, so a due_date that
\* is not a string raises TypeError.
DueDate(meta) ==
    IF meta.due_date = None THEN NoDate
    ELSE IF meta.due_date \in {JsonNull, JsonNumber} THEN Raises
    ELSE strptime(meta.due_date)

priority_days == [P1 |-> 3, P2 |-> 7, P3 |-> 14, P4 |-> 30]

\* Strategy 6 (lines 212-215): priority_days.get(priority, default_days).
Fallback(meta, now) ==
    LET priority == normalize_priority(meta.priority)
    IN  now + (IF priority \in DOMAIN priority_days THEN priority_days[priority]
               ELSE DEFAULT_DEADLINE_DAYS)

\* A strategy's outcome followed by the rest of the resolver: a date is
\* returned, an exception propagates, None goes on.
OrElse(d, rest) == IF d # NoDate THEN d ELSE rest

get_deadline(meta, now) ==
    OrElse(ExplicitDeadline(meta, now),
    OrElse(DueDate(meta),
    OrElse(extract_deadline_from_labels(meta.labels, now),
    OrElse(extract_deadline_from_text(meta.description, now),
    OrElse(extract_deadline_from_text(meta.notes, now),
           Fallback(meta, now))))))

\* ------------------------------------------------------- rendered content

GITHUB_REPO == "ShawnOwen/stacks-ranking-priorities"

\* get_priority_emoji on a normalized priority, the circles named by colour.
get_priority_emoji(priority) ==
    CASE priority = "P1" -> "(red)"
      [] priority = "P2" -> "(orange)"
      [] priority = "P3" -> "(yellow)"
      [] OTHER -> "(white)"

\* meta.get("name", thread_id)
NameOf(thread_id, meta) == IF meta.name = None THEN thread_id ELSE meta.name

\* if issue_num: / if gdrive_url: the truthiness of an optional string.
Truthy(value) == value # None /\ value # ""

build_event_title(thread_id, meta) ==
    LET name == NameOf(thread_id, meta)
        priority == normalize_priority(meta.priority)
        emoji == get_priority_emoji(priority)
        issue_num == meta.sync.github_issue_number
    IN  IF Truthy(issue_num)
        THEN emoji \o " " \o priority \o ": #" \o issue_num \o " - " \o name
        ELSE emoji \o " " \o priority \o ": " \o name

\* deadline.strftime("%Y-%m-%d"): the day number written out.
strftime(day) == ToString(day)

\* build_event_description: the lines joined by "\n", as their sequence.
build_event_description(thread_id, meta, now) ==
    LET name == NameOf(thread_id, meta)
        issue_num == meta.sync.github_issue_number
        gdrive_url == meta.sync.gdrive_folder_url
        session == IF Truthy(issue_num) THEN issue_num ELSE thread_id
    IN  <<"Task Thread: " \o name,
          "Priority: " \o normalize_priority(meta.priority), "", "Links:">>
        \o (IF Truthy(issue_num)
            THEN <<"GitHub: https://github.com/" \o GITHUB_REPO \o "/issues/"
                   \o issue_num>>
            ELSE <<>>)
        \o (IF Truthy(gdrive_url) THEN <<"GDrive: " \o gdrive_url>> ELSE <<>>)
        \o <<"Thread: /equabot/threads/" \o thread_id \o "/",
             "Session: agent:main:task-thread:" \o session, "",
             "Deadline: " \o strftime(get_deadline(meta, now)),
             "Status: " \o StatusOf(meta)>>

\* What create_calendar_event hands to the calendar for a record: title,
\* description, the day of the one-hour slot and the colour.
EventContent(thread_id, meta, now) ==
    [title |-> build_event_title(thread_id, meta),
     description |-> build_event_description(thread_id, meta, now),
     schedule |-> get_deadline(meta, now),
     color |-> color_id(normalize_priority(meta.priority))]

NoContent == [title |-> "", description |-> <<>>, schedule |-> NoDate, color |-> ""]

\* ------------------------------------------------------- calendar gateway

\* How one invocation of the external calendar command can end: a non-zero
\* exit, a timeout, a launch failure, or exit code 0 with a combined output
\* that is (ok_id) a JSON object with a string id and nothing after it,
\* (ok_int_id) a JSON object whose id is a number, (ok_trailing) a JSON object
\* with a string id followed by more text, (ok_no_id) a JSON object without a
\* usable id, (ok_no_json) text without any "{".
CmdFailures == {"nonzero", "timeout", "launch_error"}

CmdSuccesses == {"ok_id", "ok_int_id", "ok_trailing", "ok_no_id", "ok_no_json"}

ExtBehaviours == CmdFailures \cup CmdSuccesses

\* update and delete read only whether the command succeeded: one behaviour
\* of each kind stands for the others.
ExitStatuses == {"nonzero", "ok_no_json"}

\* run_calendar_command: (success, output); every exception is caught.
run_calendar_command(ext) ==
    [success |-> ext \in CmdSuccesses,
     output  |-> IF ext \in CmdSuccesses THEN ext ELSE "diagnostic"]

\* "{" in output
HasBrace(output) == output \in {"ok_id", "ok_int_id", "ok_trailing", "ok_no_id"}

\* json.loads(output[json_start:]) succeeds (no JSONDecodeError): the text from
\* the first "{" to the end of the output is one JSON document.
JsonLoads(output) == output \in {"ok_id", "ok_int_id", "ok_no_id"}

\* The output contains a JSON object with an id field.
ContainsIdObject(output) == output \in {"ok_id", "ok_int_id", "ok_trailing"}

\* The identifier the calendar gave the n-th event it created.
EventId(n) == "evt" \o ToString(n)

\* create_calendar_event after the command ran: the event id, the sentinel,
\* None, or an exception (event_id[:20] on a number is a TypeError, which the
\* except json.JSONDecodeError clause does not catch).
create_calendar_event(ext, fresh) ==
    LET r == run_calendar_command(ext) IN
    IF r.success
    THEN IF HasBrace(r.output) /\ JsonLoads(r.output)
         THEN CASE r.output = "ok_id" -> fresh
                [] r.output = "ok_int_id" -> RAISED
                [] OTHER -> CREATED_NO_ID
         ELSE CREATED_NO_ID
    ELSE None

\* update_calendar_event / delete_calendar_event: the command's success.
update_calendar_event(ext) == run_calendar_command(ext).success

delete_calendar_event(ext) == run_calendar_command(ext).success

Bool(b) == IF b THEN "True" ELSE "False"

\* ------------------------------------------------------------------ state

VARIABLES
    fs,         \* THREADS_DIR: task key -> record file
    disk,       \* STATE_FILE: [kind: none | full | partial, data]
    calendar,   \* the external calendar: live events [id, key]
    nextId,     \* number of events the calendar has created so far, plus one
    pc,         \* position of the reconciler process
    run,        \* number of runs started; the clock of the timestamps
    state,      \* main's in-memory state dict
    stats,      \* main's per-run stats dict
    orphaned,   \* cleanup_orphaned_events: orphans still to process
    threads,    \* main: sorted threads still to process
    exitCode,   \* main's return value (-1: none yet)
    calls,      \* history: the gateway calls of the current run, in order
    results,    \* history: key -> result of sync_thread_to_calendar this run
    state0,     \* history: synced_threads as loaded at the start of the run
    quiet,      \* history: the previous run completed without a per-task
                \* error and no record file was changed since
    scen,       \* history: how far the first key is through the scenario
                \* "created at priority 2, run again, priority edited to 1"
    probe,      \* the records, the clock and the results of the pure
                \* functions when they are exercised on their own
    peer,       \* the memory of a second reconciler process started on the
                \* same files, while the first one is the one taking steps
    lost        \* history: the keys whose create the last run issued before
                \* it was killed with save_state not yet called, and whose
                \* record file was not changed since

vars == <<fs, disk, calendar, nextId, pc, run, state, stats, orphaned, threads,
          exitCode, calls, results, state0, quiet, scen, probe, peer, lost>>

NoEntries == [k \in {} |-> 0]

\* load_state's fresh state (lines 51-60).
FreshState ==
    [synced_threads |-> NoEntries, last_sync |-> 0,
     sync_stats |-> [created |-> 0, updated |-> 0, deleted |-> 0, errors |-> 0]]

StatKeys == {"created", "updated", "deleted", "skipped", "errors", "error"}

\* main's stats dict (line 508); a key it does not hold yet reads as 0.
ZeroStats == [x \in StatKeys |-> 0]

NoResults == [k \in Keys |-> "none"]

Put(f, k, v) == [x \in (DOMAIN f) \cup {k} |-> IF x = k THEN v ELSE f[x]]

Drop(f, k) == [x \in (DOMAIN f) \ {k} |-> f[x]]

\* The scenario's key and its stages: 0 outside the scenario, 1 after the run
\* that created the event for the record at priority "2", 2 after a further
\* run on the unchanged record, 3 once the priority was then edited to "1".
ScenKey == KeyOrder[1]

NoScen == [stage |-> 0, event_id |-> None, hash |-> <<>>]

\* What the pure functions are applied to when exercised on their own: two
\* records a and b, the clock now, and the results once computed.
NoProbe ==
    [stage |-> "off", a |-> NoFile, b |-> NoFile, now |-> 0, deadline |-> NoDate,
     hash_a |-> <<>>, hash_b |-> <<>>, event_a |-> NoContent,
     event_b |-> NoContent]

\* A process that has not started: main's locals before load_state.
NoPeer ==
    [pc |-> "idle", state |-> FreshState, stats |-> ZeroStats, orphaned |-> {},
     threads |-> <<>>, exitCode |-> -1, calls |-> <<>>, results |-> NoResults,
     state0 |-> NoEntries]

\* The reconciler before its first run: no record, no state file, no event.
ReconcilerInit ==
    /\ fs = [k \in Keys |-> NoFile]
    /\ disk = [kind |-> "none", data |-> FreshState]
    /\ calendar = {}
    /\ nextId = 1
    /\ pc = "idle"
    /\ run = 0
    /\ state = FreshState
    /\ stats = ZeroStats
    /\ orphaned = {}
    /\ threads = <<>>
    /\ exitCode = -1
    /\ calls = <<>>
    /\ results = NoResults
    /\ state0 = NoEntries
    /\ quiet = FALSE
    /\ scen = NoScen
    /\ peer = NoPeer
    /\ lost = {}

Init == ReconcilerInit /\ probe = NoProbe

\* -------------------------------------------- the record store (environment)

\* Priorities and statuses a user writes into a record between runs.
EnvPriorities == {"2", "1"}

EnvStatuses == {"active", "closed"}

\* Record files change only while no reconciler process runs (section 5:
\* single process, sequential).
EnvReady == pc = "idle" /\ run < MaxRuns

EnvFrame(k, toRank1) ==
    /\ quiet' = FALSE
    /\ scen' = IF k # ScenKey THEN scen
               ELSE IF scen.stage = 2 /\ toRank1 THEN [scen EXCEPT !.stage = 3]
               ELSE NoScen
    /\ lost' = lost \ {k}
    /\ UNCHANGED <<probe, peer, disk, calendar, nextId, pc, run, state, stats, orphaned,
                   threads, exitCode, calls, results, state0>>

\* The issue a task's record links to under sync: the first task has one.
IssueOf(k) == IF k = KeyOrder[1] THEN "273" ELSE None

NewRecord(k, p, s) ==
    [NewMeta(p, s) EXCEPT !.sync.github_issue_number = IssueOf(k)]

AddRecord(k, p, s) ==
    /\ EnvReady
    /\ fs[k].kind = "nofile"
    /\ fs' = [fs EXCEPT ![k] = NewRecord(k, p, s)]
    /\ EnvFrame(k, FALSE)

EditPriority(k, p) ==
    /\ EnvReady
    /\ fs[k].kind = "meta"
    /\ fs[k].priority # p
    /\ fs' = [fs EXCEPT ![k].priority = p]
    /\ EnvFrame(k, p = "1")

EditStatus(k, s) ==
    /\ EnvReady
    /\ fs[k].kind = "meta"
    /\ fs[k].status # s
    /\ fs' = [fs EXCEPT ![k].status = s]
    /\ EnvFrame(k, FALSE)

\* The file stops being a JSON object: a syntax error (badjson) or a JSON
\* document of another type, such as a list (notobject).
CorruptRecord(k, kind) ==
    /\ EnvReady
    /\ fs[k].kind = "meta"
    /\ fs' = [fs EXCEPT ![k] = [NoFile EXCEPT !.kind = kind]]
    /\ EnvFrame(k, FALSE)

\* The file is rewritten as a JSON object.
FixRecord(k, p, s) ==
    /\ EnvReady
    /\ fs[k].kind \in {"badjson", "notobject"}
    /\ fs' = [fs EXCEPT ![k] = NewRecord(k, p, s)]
    /\ EnvFrame(k, FALSE)

RemoveRecord(k) ==
    /\ EnvReady
    /\ fs[k].kind # "nofile"
    /\ fs' = [fs EXCEPT ![k] = NoFile]
    /\ EnvFrame(k, FALSE)

\* ------------------------------------------------------------------- main

\* Mutant of Orphans: an entry that cannot be addressed is not cleaned up.
Orphans_addressable(entries) ==
    {k \in DOMAIN entries : fs[k].kind = "nofile" /\ Addressable(entries[k].event_id)}

\* Mutant of Orphans: a record file that does not parse counts as missing.
Orphans_unreadable(entries) ==
    {k \in DOMAIN entries : fs[k].kind \in {"nofile", "badjson"}}

\* The orphans of cleanup_orphaned_events (lines 455-458): tracked keys whose
\* directory or meta.json does not exist.
Orphans(entries) == {k \in DOMAIN entries : fs[k].kind = "nofile"}

\* main, lines 502-508: load_state and a zeroed stats dict.
StartRun ==
    /\ pc = "idle"
    /\ run < MaxRuns
    /\ disk.kind # "partial"
    /\ run' = run + 1
    /\ state' = IF disk.kind = "full" THEN disk.data ELSE FreshState
    /\ state0' = state'.synced_threads
    /\ stats' = ZeroStats
    /\ orphaned' = Orphans(state'.synced_threads)
    /\ threads' = <<>>
    /\ exitCode' = -1
    /\ calls' = <<>>
    /\ results' = NoResults
    /\ pc' = "cleanup"
    /\ UNCHANGED <<probe, peer, lost, fs, disk, calendar, nextId, quiet, scen>>

\* load_state on a truncated state file: json.loads raises and main ends with
\* a traceback before anything else happens.
LoadFails ==
    /\ pc = "idle"
    /\ run < MaxRuns
    /\ disk.kind = "partial"
    /\ run' = run + 1
    /\ pc' = "aborted"
    /\ exitCode' = 1
    /\ quiet' = FALSE
    /\ scen' = NoScen
    /\ UNCHANGED <<probe, peer, lost, fs, disk, calendar, nextId, state, stats, orphaned, threads,
                   calls, results, state0>>

Call(op, k, eid, color, ext, ret) ==
    [op |-> op, key |-> k, event_id |-> eid, color |-> color, ext |-> ext,
     ret |-> ret]

\* cleanup_orphaned_events, second loop (lines 460-466), one orphan per step.
\* The dict's iteration order is not part of the model: any order is allowed.
CleanupOrphan(k, ext) ==
    /\ pc = "cleanup"
    /\ k \in orphaned
    /\ LET event_id == state.synced_threads[k].event_id IN
       IF Addressable(event_id)
       THEN /\ ext \in ExitStatuses
            /\ calls' = Append(calls, Call("delete", k, event_id, None, ext,
                                           Bool(delete_calendar_event(ext))))
            /\ calendar' = IF delete_calendar_event(ext)
                           THEN {e \in calendar : e.id # event_id}
                           ELSE calendar
       ELSE /\ ext = "ok_no_json"
            /\ UNCHANGED <<calls, calendar>>
    /\ state' = [state EXCEPT !.synced_threads = Drop(@, k)]
    /\ orphaned' = orphaned \ {k}
    /\ UNCHANGED <<probe, peer, lost, fs, disk, nextId, pc, run, stats, threads, exitCode, results,
                   state0, quiet, scen>>

\* main, lines 511-518: count the orphans as deleted, list the threads that
\* have a meta.json, sorted.
ListThreads ==
    /\ pc = "cleanup"
    /\ orphaned = {}
    /\ stats' = [stats EXCEPT !["deleted"] = @ + Cardinality(Orphans(state0))]
    /\ threads' = SelectSeq(KeyOrder, LAMBDA k : fs[k].kind # "nofile")
    /\ pc' = "sync"
    /\ UNCHANGED <<probe, peer, lost, fs, disk, calendar, nextId, run, state, orphaned, exitCode,
                   calls, results, state0, quiet, scen>>

\* ------------------------------------------------ sync_thread_to_calendar

\* Which branch of sync_thread_to_calendar a thread takes (lines 383-429).
\* Mutant of Decide: for an active task the update branch is tested before
\* the fingerprints are compared.
Decide_update_first(doc, entries, k) ==
    IF doc.kind = "nofile" THEN "nofile"
    ELSE IF doc.kind = "badjson" THEN "badjson"
    ELSE IF doc.kind = "notobject" THEN "notobject"
    ELSE IF IsTerminal(StatusOf(doc))
    THEN IF k \in DOMAIN entries /\ entries[k].event_id \notin {None, ""}
         THEN IF entries[k].event_id # CREATED_NO_ID THEN "delete" ELSE "drop"
         ELSE "skip"
    ELSE IF k \in DOMAIN entries /\ Addressable(entries[k].event_id)
    THEN "update"
    ELSE IF k \in DOMAIN entries /\ entries[k].hash = get_thread_hash(doc)
    THEN "skip"
    ELSE "create"

\* Mutant of Decide: a changed task is created anew although its entry holds
\* an addressable event id.
Decide_recreate(doc, entries, k) ==
    IF doc.kind = "nofile" THEN "nofile"
    ELSE IF doc.kind = "badjson" THEN "badjson"
    ELSE IF doc.kind = "notobject" THEN "notobject"
    ELSE IF IsTerminal(StatusOf(doc))
    THEN IF k \in DOMAIN entries /\ entries[k].event_id \notin {None, ""}
         THEN IF entries[k].event_id # CREATED_NO_ID THEN "delete" ELSE "drop"
         ELSE "skip"
    ELSE IF k \in DOMAIN entries /\ entries[k].hash = get_thread_hash(doc)
    THEN "skip"
    ELSE "create"

\* Mutant of Decide: a record that carries a written-back event id and has no
\* entry is taken as synced.
Decide_trust_record(doc, entries, k) ==
    IF doc.kind = "nofile" THEN "nofile"
    ELSE IF doc.kind = "badjson" THEN "badjson"
    ELSE IF doc.kind = "notobject" THEN "notobject"
    ELSE IF IsTerminal(StatusOf(doc))
    THEN IF k \in DOMAIN entries /\ entries[k].event_id \notin {None, ""}
         THEN IF entries[k].event_id # CREATED_NO_ID THEN "delete" ELSE "drop"
         ELSE "skip"
    ELSE IF k \in DOMAIN entries /\ entries[k].hash = get_thread_hash(doc)
    THEN "skip"
    ELSE IF k \notin DOMAIN entries /\ doc.sync.calendar_event_id # None
    THEN "skip"
    ELSE IF k \in DOMAIN entries /\ Addressable(entries[k].event_id)
    THEN "update"
    ELSE "create"

\* Mutant of Decide: a terminal task without entry is not returned as
\* skipped and falls through to the branches of an active task.
Decide_terminal_falls_through(doc, entries, k) ==
    IF doc.kind = "nofile" THEN "nofile"
    ELSE IF doc.kind = "badjson" THEN "badjson"
    ELSE IF doc.kind = "notobject" THEN "notobject"
    ELSE IF IsTerminal(StatusOf(doc))
            /\ k \in DOMAIN entries /\ entries[k].event_id \notin {None, ""}
    THEN IF entries[k].event_id # CREATED_NO_ID THEN "delete" ELSE "drop"
    ELSE IF k \in DOMAIN entries /\ entries[k].hash = get_thread_hash(doc)
    THEN "skip"
    ELSE IF k \in DOMAIN entries /\ Addressable(entries[k].event_id)
    THEN "update"
    ELSE "create"

Decide(doc, entries, k) ==
    IF doc.kind = "nofile" THEN "nofile"
    ELSE IF doc.kind = "badjson" THEN "badjson"
    ELSE IF doc.kind = "notobject" THEN "notobject"
    ELSE IF IsTerminal(StatusOf(doc))
    THEN IF k \in DOMAIN entries /\ entries[k].event_id \notin {None, ""}
         THEN IF entries[k].event_id # CREATED_NO_ID THEN "delete" ELSE "drop"
         ELSE "skip"
    ELSE IF k \in DOMAIN entries /\ entries[k].hash = get_thread_hash(doc)
    THEN "skip"
    ELSE IF k \in DOMAIN entries /\ Addressable(entries[k].event_id)
    THEN "update"
    ELSE "create"

\* The behaviours of the external command a branch can meet: a branch that
\* calls nothing takes one fixed value, and the calendar stops creating events
\* after MaxEvents.
ExtAllowed(d, ext) ==
    CASE d = "create" -> nextId <= MaxEvents \/ ext \in CmdFailures
      [] d \in {"update", "delete"} -> ext \in ExitStatuses
      [] OTHER -> ext = "ok_no_json"

\* The entry written after a successful create (lines 432-438).
NewEntry(doc, event_id, now) ==
    [event_id |-> event_id, synced_at |-> now, updated_at |-> 0,
     issue_number |-> doc.sync.github_issue_number,
     hash |-> get_thread_hash(doc),
     priority |-> normalize_priority(doc.priority)]

\* Mutant of WriteBack: the sync object is replaced by one holding the two
\* sync fields only.
WriteBack_new_sync(doc, event_id, now) ==
    [doc EXCEPT !.sync = [NoFile.sync EXCEPT !.calendar_event_id = event_id,
                                             !.calendar_synced_at = now]]

\* The write-back into meta.json after a successful create (lines 441-444).
WriteBack(doc, event_id, now) ==
    [doc EXCEPT !.sync.calendar_event_id = event_id,
                !.sync.calendar_synced_at = now]

\* Mutant of UpdatedEntry: the fingerprint is not refreshed.
UpdatedEntry_stale(entry, doc, now) == [entry EXCEPT !.updated_at = now]

\* The entry after a successful update (lines 419-420).
UpdatedEntry(entry, doc, now) ==
    [entry EXCEPT !.hash = get_thread_hash(doc), !.updated_at = now]

\* sync_thread_to_calendar(thread_id, state) meeting the command behaviour
\* ext: its return value (or RAISED), the entries, the record file, the
\* calendar and the gateway calls it leaves behind.
sync_thread_to_calendar(k, ext) ==
    LET doc == fs[k]
        entries == state.synced_threads
        d == Decide(doc, entries, k)
        same == [result |-> "skipped", entries |-> entries, doc |-> doc,
                 calendar |-> calendar, nextId |-> nextId, calls |-> <<>>]
        color == color_id(normalize_priority(doc.priority))
    IN
    CASE d \in {"nofile", "skip"} -> same
      [] d = "badjson" -> [same EXCEPT !.result = "error"]
      [] d = "notobject" -> [same EXCEPT !.result = RAISED]
      [] d = "drop" ->
            [same EXCEPT !.result = "deleted", !.entries = Drop(entries, k)]
      [] d = "delete" ->
            LET event_id == entries[k].event_id
                ok == delete_calendar_event(ext)
            IN [same EXCEPT
                  !.result = "deleted",
                  !.entries = Drop(entries, k),
                  !.calendar = IF ok THEN {e \in calendar : e.id # event_id}
                               ELSE calendar,
                  !.calls = <<Call("delete", k, event_id, None, ext, Bool(ok))>>]
      [] d = "update" ->
            LET event_id == entries[k].event_id
                ok == update_calendar_event(ext)
            IN [same EXCEPT
                  !.result = IF ok THEN "updated" ELSE "error",
                  !.entries = IF ok
                              THEN Put(entries, k, UpdatedEntry(entries[k], doc, run))
                              ELSE entries,
                  !.calls = <<Call("update", k, event_id, color, ext, Bool(ok))>>]
      [] d = "create" ->
            LET ret == create_calendar_event(ext, EventId(nextId))
                made == run_calendar_command(ext).success
            IN [same EXCEPT
                  !.result = CASE ret = RAISED -> RAISED
                               [] ret = None -> "error"
                               [] OTHER -> "created",
                  !.entries = IF ret \in {RAISED, None} THEN entries
                              ELSE Put(entries, k, NewEntry(doc, ret, run)),
                  !.doc = IF ret \in {RAISED, None} THEN doc
                          ELSE WriteBack(doc, ret, run),
                  !.calendar = IF made
                               THEN calendar \cup {[id |-> EventId(nextId), key |-> k]}
                               ELSE calendar,
                  !.nextId = IF made THEN nextId + 1 ELSE nextId,
                  !.calls = <<Call("create", k, None, color, ext, ret)>>]

\* The key of the stats dict that main increments for a result (line 523):
\* stats[result] = stats.get(result, 0) + 1.
StatKey(result) == result

\* main, lines 521-523: one thread of the sorted list.  An exception raised
\* while the thread is processed leaves main: nothing is saved.
SyncThread(ext) ==
    /\ pc = "sync"
    /\ threads # <<>>
    /\ LET k == Head(threads)
           o == sync_thread_to_calendar(k, ext)
       IN /\ ExtAllowed(Decide(fs[k], state.synced_threads, k), ext)
          /\ state' = [state EXCEPT !.synced_threads = o.entries]
          /\ fs' = [fs EXCEPT ![k] = o.doc]
          /\ calendar' = o.calendar
          /\ nextId' = o.nextId
          /\ calls' = calls \o o.calls
          /\ results' = [results EXCEPT ![k] = o.result]
          /\ IF o.result = RAISED
             THEN /\ pc' = "aborted"
                  /\ exitCode' = 1
                  /\ UNCHANGED <<stats, threads>>
             ELSE /\ stats' = [stats EXCEPT ![StatKey(o.result)] = @ + 1]
                  /\ threads' = Tail(threads)
                  /\ UNCHANGED <<pc, exitCode>>
    /\ UNCHANGED <<probe, peer, lost, disk, run, orphaned, state0, quiet, scen>>

\* main, lines 526-528, and save_state up to the point where write_text has
\* opened STATE_FILE for writing: the file is truncated, nothing is written.
SaveOpen ==
    /\ pc = "sync"
    /\ threads = <<>>
    /\ state' = [state EXCEPT
                   !.sync_stats = [x \in DOMAIN @ |-> @[x] + stats[x]],
                   !.last_sync = run]
    /\ disk' = [kind |-> "partial", data |-> FreshState]
    /\ pc' = "saving"
    /\ UNCHANGED <<probe, peer, lost, fs, calendar, nextId, run, stats, orphaned, threads, exitCode,
                   calls, results, state0, quiet, scen>>

\* Mutant of SaveWrite: the entries found in the file are kept next to the
\* process's own (a merge on save).
SaveWrite_merge ==
    /\ pc = "saving"
    /\ disk' = [kind |-> "full",
                data |-> [state EXCEPT !.synced_threads =
                    [k \in DOMAIN disk.data.synced_threads \cup DOMAIN @ |->
                        IF k \in DOMAIN @ THEN @[k]
                        ELSE disk.data.synced_threads[k]]]]
    /\ exitCode' = IF stats["errors"] > 0 THEN 1 ELSE 0
    /\ pc' = "done"
    /\ UNCHANGED <<probe, peer, lost, fs, calendar, nextId, run, state, stats, orphaned,
                   threads, calls, results, state0, quiet, scen>>

\* save_state's write completes; main prints the summary and returns
\* (lines 531-534).
SaveWrite ==
    /\ pc = "saving"
    /\ disk' = [kind |-> "full", data |-> state]
    /\ exitCode' = IF stats["errors"] > 0 THEN 1 ELSE 0
    /\ pc' = "done"
    /\ UNCHANGED <<probe, peer, lost, fs, calendar, nextId, run, state, stats, orphaned, threads,
                   calls, results, state0, quiet, scen>>

\* The process is gone: its memory is lost, the files and the calendar stay.
Forget ==
    /\ pc' = "idle"
    /\ state' = FreshState
    /\ stats' = ZeroStats
    /\ orphaned' = {}
    /\ threads' = <<>>
    /\ exitCode' = -1
    /\ calls' = <<>>
    /\ results' = NoResults
    /\ state0' = NoEntries
    /\ UNCHANGED <<probe, peer, fs, disk, calendar, nextId, run>>

\* The process ends after main returned or raised.
\* The scenario's stage once a run has completed.
ScenAfterRun ==
    LET k == ScenKey IN
    CASE scen.stage = 0 /\ k \notin DOMAIN state0 /\ results[k] = "created"
         /\ fs[k].priority = "2" /\ fs[k].status = "active"
         /\ state.synced_threads[k].event_id # CREATED_NO_ID
           -> [stage |-> 1, event_id |-> state.synced_threads[k].event_id,
               hash |-> state.synced_threads[k].hash]
      [] scen.stage \in {1, 2} -> [scen EXCEPT !.stage = 2]
      [] OTHER -> NoScen

Exit ==
    /\ pc \in {"done", "aborted"}
    /\ quiet' = (pc = "done" /\ \A k \in Keys : results[k] # "error")
    /\ scen' = IF pc = "done" THEN ScenAfterRun ELSE NoScen
    /\ lost' = {}
    /\ Forget

\* The process is killed (or the machine stops) at any point of a run.
Crash ==
    /\ pc \in {"cleanup", "sync", "saving"}
    /\ quiet' = FALSE
    /\ scen' = NoScen
    /\ lost' = IF pc = "saving" THEN {} ELSE {k \in Keys : results[k] = "created"}
    /\ Forget

Next ==
    \/ \E k \in Keys, p \in EnvPriorities, s \in EnvStatuses : AddRecord(k, p, s)
    \/ \E k \in Keys, p \in EnvPriorities : EditPriority(k, p)
    \/ \E k \in Keys, s \in EnvStatuses : EditStatus(k, s)
    \/ \E k \in Keys, kind \in {"badjson", "notobject"} : CorruptRecord(k, kind)
    \/ \E k \in Keys, p \in EnvPriorities, s \in EnvStatuses : FixRecord(k, p, s)
    \/ \E k \in Keys : RemoveRecord(k)
    \/ StartRun
    \/ LoadFails
    \/ \E k \in Keys, ext \in ExtBehaviours : CleanupOrphan(k, ext)
    \/ ListThreads
    \/ \E ext \in ExtBehaviours : SyncThread(ext)
    \/ SaveOpen
    \/ SaveWrite
    \/ Exit
    \/ Crash

Spec == Init /\ [][Next]_vars

\* --------------------------------------- two processes on the same files

\* Nothing locks STATE_FILE or THREADS_DIR, so a second main() can be started
\* while the first one runs.  The variables pc .. state0 are the memory of the
\* process that takes the steps, peer is the memory of the other one; the
\* scheduler hands the processor over between any two steps.
Switch ==
    /\ peer' = [pc |-> pc, state |-> state, stats |-> stats,
                orphaned |-> orphaned, threads |-> threads,
                exitCode |-> exitCode, calls |-> calls, results |-> results,
                state0 |-> state0]
    /\ pc' = peer.pc
    /\ state' = peer.state
    /\ stats' = peer.stats
    /\ orphaned' = peer.orphaned
    /\ threads' = peer.threads
    /\ exitCode' = peer.exitCode
    /\ calls' = peer.calls
    /\ results' = peer.results
    /\ state0' = peer.state0
    /\ UNCHANGED <<fs, disk, calendar, nextId, run, quiet, scen, probe, lost>>

\* The command behaviours the two processes meet: a failure, an output
\* without id and an output with a string id.
TwoBehaviours == {"nonzero", "ok_no_json", "ok_id"}

\* Each of the two processes runs main() once.
NextTwo ==
    \/ \E k \in Keys, p \in EnvPriorities, s \in EnvStatuses : AddRecord(k, p, s)
    \/ \E k \in Keys : RemoveRecord(k)
    \/ StartRun
    \/ LoadFails
    \/ \E k \in Keys, ext \in TwoBehaviours : CleanupOrphan(k, ext)
    \/ ListThreads
    \/ \E ext \in TwoBehaviours : SyncThread(ext)
    \/ SaveOpen
    \/ SaveWrite
    \/ Switch

SpecTwo == Init /\ [][NextTwo]_vars

\* ------------------------------------- runs in which nothing goes wrong

\* main's loop body when the calendar command succeeds: a create is answered
\* with a string id, an update or a delete with exit status 0.
SyncThreadOk(ext) ==
    /\ pc = "sync"
    /\ threads # <<>>
    /\ (Decide(fs[Head(threads)], state.synced_threads, Head(threads)) = "create"
           <=> ext = "ok_id")
    /\ SyncThread(ext)

\* Runs that complete: no process is killed, no exception leaves main (every
\* record file is absent, a JSON object or not JSON at all), every gateway
\* call succeeds and every create returns an identifier.
NextClean ==
    \/ \E k \in Keys, p \in EnvPriorities, s \in EnvStatuses : AddRecord(k, p, s)
    \/ \E k \in Keys, p \in EnvPriorities : EditPriority(k, p)
    \/ \E k \in Keys, s \in EnvStatuses : EditStatus(k, s)
    \/ \E k \in Keys : CorruptRecord(k, "badjson")
    \/ \E k \in Keys, p \in EnvPriorities, s \in EnvStatuses : FixRecord(k, p, s)
    \/ \E k \in Keys : RemoveRecord(k)
    \/ StartRun
    \/ \E k \in Keys : CleanupOrphan(k, "ok_no_json")
    \/ ListThreads
    \/ \E ext \in {"ok_id", "ok_no_json"} : SyncThreadOk(ext)
    \/ SaveOpen
    \/ SaveWrite
    \/ Exit

SpecClean == Init /\ [][NextClean]_vars

\* ------------------------------------- the deadline resolver on its own

reconciler == <<fs, disk, calendar, nextId, pc, run, state, stats, orphaned,
                threads, exitCode, calls, results, state0, quiet, scen, peer,
                lost>>

\* Values a record's deadline-bearing fields take: absent, well-formed,
\* strings that do not parse, and a JSON number.
ResolverDeadlines ==
    {None, "2026-03-01T10:00:00Z", "Due: 2026-03-05", "deadline: 2026-13-45",
     JsonNumber}

ResolverDueDates == {None, "2026-03-15", "2026-03-01T10:00:00Z", JsonNumber}

ResolverLabels ==
    {<<>>, <<"this-week">>, <<"urgent", "next-week">>,
     <<"deadline:soon", "due-2026-03-05">>, <<"next-week", "this-week">>}

ResolverDescriptions ==
    {None, "ship by March 20", "by feb 30", JsonNumber, "in 99999999999 days"}

ResolverNotes == {None, "in 3 weeks", JsonNumber}

ResolverDocs ==
    {[NewMeta("2", "active") EXCEPT !.priority = p, !.deadline = dl,
                                   !.due_date = dd, !.labels = ls,
                                   !.description = ds, !.notes = nt] :
        p \in PriorityInputs, dl \in ResolverDeadlines, dd \in ResolverDueDates,
        ls \in ResolverLabels, ds \in ResolverDescriptions, nt \in ResolverNotes}

InitResolver ==
    /\ ReconcilerInit
    /\ probe \in {[NoProbe EXCEPT !.stage = "input", !.a = doc, !.now = now] :
                    doc \in ResolverDocs, now \in Nows}

\* get_deadline(meta) at the clock now.
Resolve ==
    /\ probe.stage = "input"
    /\ probe' = [probe EXCEPT !.stage = "resolved",
                              !.deadline = get_deadline(probe.a, probe.now)]
    /\ UNCHANGED reconciler

NextResolver == Resolve

SpecResolver == InitResolver /\ [][NextResolver]_vars

\* ------------------------------------------- the fingerprint on its own

\* Two versions of the record of one task key.
FingerprintKey == KeyOrder[1]

FingerprintDocs ==
    {[NewMeta(p, s) EXCEPT !.name = n, !.deadline = dl, !.due_date = dd,
                           !.labels = ls, !.sync.github_issue_number = i,
                           !.sync.calendar_event_id = e,
                           !.sync.calendar_synced_at = IF e = None THEN 0 ELSE 1] :
        n \in {None, "Ship v2"}, p \in {"1", "P1", "2"}, s \in {None, "active"},
        dl \in {None, "2026-03-01T10:00:00Z"}, dd \in {None, "2026-03-15"},
        ls \in {<<>>, <<"urgent", "this-week">>, <<"this-week", "urgent">>},
        i \in {None, "273"}, e \in {None, EventId(1)}}

InitFingerprint ==
    /\ ReconcilerInit
    /\ probe \in {[NoProbe EXCEPT !.stage = "input", !.a = doc, !.b = doc,
                                  !.now = now] :
                    doc \in FingerprintDocs, now \in Nows}

\* get_thread_hash and the rendering of both versions.
Compare(b) ==
    /\ probe.stage = "input"
    /\ probe' = [probe EXCEPT
                   !.stage = "compared", !.b = b,
                   !.hash_a = get_thread_hash(probe.a),
                   !.hash_b = get_thread_hash(b),
                   !.event_a = EventContent(FingerprintKey, probe.a, probe.now),
                   !.event_b = EventContent(FingerprintKey, b, probe.now)]
    /\ UNCHANGED reconciler

NextFingerprint == \E b \in FingerprintDocs : Compare(b)

SpecFingerprint == InitFingerprint /\ [][NextFingerprint]_vars

\* ----------------------------------------------------------------- claims

\* The gateway calls of the current run made for key k, in order.
CallsFor(k) == SelectSeq(calls, LAMBDA c : c.key = k)

\* The tasks whose result in the current run is a per-task error.
ErrorTasks == {k \in Keys : results[k] = "error"}

\* C1: when main returns, its exit code is zero if and only if no task of the
\* run ended in a per-task error, and the summary's error count is the number
\* of tasks that did.
C1_ExitCodeReflectsErrors ==
    pc = "done" =>
        /\ (exitCode = 0 <=> ErrorTasks = {})
        /\ stats["errors"] = Cardinality(ErrorTasks)

\* C2: idempotence.  In a run that follows a run completed without per-task
\* error, with no record file changed in between, no gateway call is issued,
\* no run is aborted, every sync entry stays what it was at load, and every
\* listed task is reported skipped; the saved entries are the loaded ones.
C2_SecondRunAllSkip ==
    (quiet /\ pc # "idle") =>
        /\ pc # "aborted"
        /\ calls = <<>>
        /\ state.synced_threads = state0
        /\ \A k \in Keys : results[k] \in {"none", "skipped"}
        /\ pc = "done" =>
              /\ \A k \in Keys : fs[k].kind # "nofile" => results[k] = "skipped"
              /\ stats["skipped"] = Cardinality({k \in Keys : fs[k].kind # "nofile"})
              /\ disk.data.synced_threads = state0

\* C2 witness: a second run has completed as all-skip over an entry holding
\* the sentinel and a task with terminal status.
C2_Witness ==
    /\ pc = "done"
    /\ quiet
    /\ \E k \in DOMAIN state0 :
          state0[k].event_id = CREATED_NO_ID /\ results[k] = "skipped"
    /\ \E k \in Keys :
          fs[k].kind = "meta" /\ fs[k].status = "closed" /\ results[k] = "skipped"

\* A processed task with terminal status whose entry, as loaded, has an
\* addressable event id.
TerminalTracked(k) ==
    /\ pc # "idle"
    /\ results[k] # "none"
    /\ fs[k].kind = "meta"
    /\ fs[k].status \in {"done", "closed", "completed"}
    /\ k \in DOMAIN state0
    /\ state0[k].event_id \notin {None, "", CREATED_NO_ID}

\* C3: a tracked task found with terminal status gets exactly one delete call,
\* for its event id; its entry is gone afterwards whatever the call returned;
\* its result is "deleted", which is what the stats count.
C3_TerminalDeletesOnce ==
    \A k \in Keys : TerminalTracked(k) =>
        /\ Len(CallsFor(k)) = 1
        /\ CallsFor(k)[1].op = "delete"
        /\ CallsFor(k)[1].event_id = state0[k].event_id
        /\ k \notin DOMAIN state.synced_threads
        /\ results[k] = "deleted"
        /\ stats["deleted"] >= 1
        /\ stats["error"] = Cardinality(ErrorTasks)
        /\ pc = "done" => k \notin DOMAIN disk.data.synced_threads

\* C3 witness: the run is complete and the delete call of such a task failed.
C3_Witness ==
    /\ pc = "done"
    /\ \E k \in Keys : TerminalTracked(k) /\ CallsFor(k)[1].ret = "False"

\* C4: once the orphan pass is over, every entry loaded for a key without a
\* record file is gone from the state, whatever its delete call returned; it
\* got one delete call if its event id is addressable and none otherwise; and
\* the per-task pass never processes the key.  The per-task pass does not start
\* before the orphan pass is over.
C4_OrphansRemoved ==
    /\ pc = "cleanup" => threads = <<>> /\ results = NoResults
    /\ pc \in {"sync", "saving", "done", "aborted"} =>
          \A k \in DOMAIN state0 : fs[k].kind = "nofile" =>
              /\ k \notin DOMAIN state.synced_threads
              /\ results[k] = "none"
              /\ \A i \in 1..Len(threads) : threads[i] # k
              /\ IF state0[k].event_id \notin {None, "", CREATED_NO_ID}
                 THEN /\ Len(CallsFor(k)) = 1
                      /\ CallsFor(k)[1].op = "delete"
                      /\ CallsFor(k)[1].event_id = state0[k].event_id
                 ELSE CallsFor(k) = <<>>
              /\ pc = "done" => k \notin DOMAIN disk.data.synced_threads

\* C4 witness: a run completed in which an orphan's delete call failed.
C4_Witness ==
    /\ pc = "done"
    /\ \E k \in DOMAIN state0 :
          /\ fs[k].kind = "nofile"
          /\ Len(CallsFor(k)) = 1
          /\ CallsFor(k)[1].ret = "False"

\* C5: the three-run scenario on the first key.  Run 1: an active record at
\* priority "2" without entry, the command returning an identifier: exactly
\* one create, with the rank-2 colour, and an entry with that identifier and the
\* record's fingerprint.  Run 2 on the unchanged record: no gateway call, the
\* task is skipped.  Run 3 after the priority was edited to "1": exactly one
\* update and no create, addressed to the event id stored by run 1, with the
\* rank-1 colour; when it succeeds the stored fingerprint is the new record's
\* and differs from the old one, and the event id stays.
C5_ThreeRunScenario ==
    LET k == ScenKey
        mine == CallsFor(k)
    IN
    /\ (/\ pc = "done"
        /\ k \notin DOMAIN state0
        /\ fs[k].kind = "meta" /\ fs[k].priority = "2" /\ fs[k].status = "active"
        /\ Len(mine) > 0
        /\ mine[1].ext = "ok_id")
       => /\ Len(mine) = 1
          /\ mine[1].op = "create"
          /\ mine[1].color = "6"
          /\ k \in DOMAIN state.synced_threads
          /\ state.synced_threads[k].event_id = mine[1].ret
          /\ state.synced_threads[k].hash =
                <<fs[k].name, "P2", "active", fs[k].deadline, fs[k].labels>>
    /\ (pc # "idle" /\ scen.stage \in {1, 2})
       => /\ mine = <<>>
          /\ results[k] \in {"none", "skipped"}
          /\ pc = "done" => results[k] = "skipped"
    /\ (pc = "done" /\ scen.stage = 3)
       => /\ Len(mine) = 1
          /\ mine[1].op = "update"
          /\ mine[1].event_id = scen.event_id
          /\ mine[1].color = "11"
          /\ mine[1].ret = "True" =>
                /\ state.synced_threads[k].event_id = scen.event_id
                /\ state.synced_threads[k].hash # scen.hash
                /\ state.synced_threads[k].hash =
                      <<fs[k].name, "P1", "active", fs[k].deadline, fs[k].labels>>

\* C5 witness: run 3 of the scenario has completed with a successful update.
C5_Witness ==
    /\ pc = "done"
    /\ scen.stage = 3
    /\ Len(CallsFor(ScenKey)) = 1
    /\ CallsFor(ScenKey)[1].ret = "True"

\* C6: while a record file exists and is not JSON, the run issues no gateway
\* call for its key and the key's entry, present or absent, is what was
\* loaded; the task's result is an error.  A record that parses is processed
\* normally: it gets a result, an error only from a failed gateway call, and
\* an active record without entry gets its create.
C6_UnparseableUntouched ==
    \A k \in Keys :
        /\ (pc # "idle" /\ fs[k].kind = "badjson") =>
              /\ CallsFor(k) = <<>>
              /\ k \in DOMAIN state0 <=> k \in DOMAIN state.synced_threads
              /\ k \in DOMAIN state0 => state.synced_threads[k] = state0[k]
              /\ results[k] \in {"none", "error"}
              /\ pc = "done" =>
                    /\ results[k] = "error"
                    /\ k \in DOMAIN state0 <=> k \in DOMAIN disk.data.synced_threads
                    /\ k \in DOMAIN state0 => disk.data.synced_threads[k] = state0[k]
        /\ (pc = "done" /\ fs[k].kind = "meta") =>
              /\ results[k] \in {"created", "updated", "deleted", "skipped", "error"}
              /\ results[k] = "error" =>
                    /\ Len(CallsFor(k)) = 1
                    /\ CallsFor(k)[1].ret \in {None, "False"}
              /\ (k \notin DOMAIN state0 /\ fs[k].status = "active") =>
                    /\ Len(CallsFor(k)) = 1
                    /\ CallsFor(k)[1].op = "create"

\* C6 witness: a run completed over an unparseable record of a tracked key.
C6_Witness ==
    /\ pc = "done"
    /\ \E k \in DOMAIN state0 : fs[k].kind = "badjson" /\ results[k] = "error"

\* C7: no failure while one task is processed aborts the run: a run ends
\* early only when the state store itself cannot be read.
C7_FailuresIsolated ==
    pc = "aborted" => \A k \in Keys : results[k] # RAISED

\* C8: the state file is never truncated or partial: at every instant it is
\* absent or a complete saved state.
C8_StateFileNeverPartial == disk.kind # "partial"

C10_CreateThreeOutcomes ==
    \A i \in 1..Len(calls) : calls[i].op = "create" =>
        LET c == calls[i] IN
        /\ c.ret # RAISED
        /\ c.ext \in CmdFailures => c.ret = None
        /\ (c.ext \in CmdSuccesses /\ ContainsIdObject(c.ext)) =>
              c.ret \notin {None, CREATED_NO_ID, RAISED}
        /\ (c.ext \in CmdSuccesses /\ ~ContainsIdObject(c.ext)) =>
              c.ret = CREATED_NO_ID

\* C11: two versions of a task's record that render different calendar
\* content (title, description, schedule or colour) have different
\* fingerprints, and two that render the same content have the same one.
C11_FingerprintSensitive ==
    probe.stage = "compared" =>
        ((probe.event_a = probe.event_b) <=> (probe.hash_a = probe.hash_b))

\* Number of times a label is listed.
Count(l, labels) == Cardinality({i \in 1..Len(labels) : labels[i] = l})

\* The same labels, listed in any order.
SameLabels(x, y) ==
    \A l \in {x[i] : i \in 1..Len(x)} \cup {y[i] : i \in 1..Len(y)} :
        Count(l, x) = Count(l, y)

\* The five inputs of the fingerprint agree.
SameKeyFields(x, y) ==
    /\ x.name = y.name
    /\ normalize_priority(x.priority) = normalize_priority(y.priority)
    /\ x.status = y.status
    /\ x.deadline = y.deadline
    /\ SameLabels(x.labels, y.labels)

\* C12: two records with the same name, normalized priority, status, raw
\* deadline field and labels (in any order) have the same fingerprint,
\* whatever their other fields hold, the written-back sync fields included.
C12_FingerprintPure ==
    (probe.stage = "compared" /\ SameKeyFields(probe.a, probe.b)) =>
        probe.hash_a = probe.hash_b

\* Two records that agree on the five inputs and differ in the spelling of
\* the priority, the order of the labels, the due date, the issue number
\* and the written-back sync fields were fingerprinted.
C12_Witness ==
    /\ probe.stage = "compared"
    /\ SameKeyFields(probe.a, probe.b)
    /\ probe.a.priority # probe.b.priority
    /\ probe.a.labels # probe.b.labels
    /\ probe.a.due_date # probe.b.due_date
    /\ probe.a.sync.github_issue_number # probe.b.sync.github_issue_number
    /\ probe.a.sync.calendar_event_id # probe.b.sync.calendar_event_id
    /\ probe.a.sync.calendar_synced_at # probe.b.sync.calendar_synced_at

\* What the strategies make of a record, in the order the resolver is said
\* to try them: explicit deadline, due date, labels, description, notes,
\* priority fallback.
Tried(meta, now) ==
    <<ExplicitDeadline(meta, now), DueDate(meta),
      extract_deadline_from_labels(meta.labels, now),
      extract_deadline_from_text(meta.description, now),
      extract_deadline_from_text(meta.notes, now), Fallback(meta, now)>>

\* The first strategy that yields a date (the fallback always does).
FirstDate(tried) ==
    CHOOSE i \in 1..Len(tried) :
        tried[i] >= 0 /\ \A j \in 1..(i - 1) : tried[j] < 0

\* C13: the resolver returns the date of the first strategy, in that order,
\* that yields one; a record with a parseable explicit deadline and a
\* this-week label resolves to the explicit deadline's date.
C13_FirstStrategyWins ==
    probe.stage = "resolved" =>
        LET tried == Tried(probe.a, probe.now) IN
        /\ probe.deadline = tried[FirstDate(tried)]
        /\ (fromisoformat(probe.a.deadline) >= 0
            /\ probe.a.labels = <<"this-week">>) =>
              probe.deadline = fromisoformat(probe.a.deadline)

\* Offset in days the fallback is said to add for a normalized priority.
ClaimedOffset(priority) ==
    CASE priority = "P1" -> 3
      [] priority = "P2" -> 7
      [] priority = "P3" -> 14
      [] OTHER -> DEFAULT_DEADLINE_DAYS

\* C14: when no field, label or text yields a date, the resolved date is the
\* resolution time plus 3, 7 or 14 days for rank 1, 2 or 3 and plus the
\* default (7) for rank 4 and for absent or unrecognized priorities.
C14_FallbackOffset ==
    probe.stage = "resolved" =>
        LET tried == Tried(probe.a, probe.now) IN
        (\A i \in 1..5 : tried[i] = NoDate) =>
            probe.deadline
                = probe.now + ClaimedOffset(normalize_priority(probe.a.priority))

\* C15: for every record, whichever fields are absent or malformed, the
\* resolver returns a date and raises nothing.
C15_ResolverTotal ==
    probe.stage = "resolved" => probe.deadline >= 0

\* An active task's record: a JSON object whose status is not terminal.
Active(doc) ==
    doc.kind = "meta" /\ doc.status \notin {"done", "closed", "completed"}

\* This step of the run is sync_thread_to_calendar on task k.
Processes(k) == pc = "sync" /\ results[k] = "none" /\ results'[k] # "none"

\* C16: the reconciler writes a record file only on a successful create, and
\* then sets the two sync fields calendar_event_id and calendar_synced_at and
\* leaves every other field, those under sync included, as it was; no other
\* step of a run writes a record file.
C16_WriteBackFrame ==
    [][(pc # "idle" \/ pc' # "idle") =>
         \A k \in Keys :
            \/ fs'[k] = fs[k]
            \/ /\ Processes(k)
               /\ results'[k] = "created"
               /\ calls' = calls \o <<calls'[Len(calls')]>>
               /\ calls'[Len(calls')].op = "create"
               /\ calls'[Len(calls')].key = k
               /\ calls'[Len(calls')].ext \in CmdSuccesses
               /\ fs[k].kind = "meta"
               /\ fs'[k] = [fs[k] EXCEPT
                              !.sync.calendar_event_id = calls'[Len(calls')].ret,
                              !.sync.calendar_synced_at = run]]_vars

\* A create succeeded for a record that links to an issue: the two sync
\* fields are set and the issue number is still there; in the same run the
\* other task's create failed and its record holds no event id.
C16_Witness ==
    /\ pc = "sync"
    /\ \E k, j \in Keys :
          /\ results[k] = "created"
          /\ fs[k].sync.calendar_event_id = state.synced_threads[k].event_id
          /\ fs[k].sync.calendar_synced_at = run
          /\ fs[k].sync.github_issue_number = "273"
          /\ results[j] = "error"
          /\ fs[j].kind = "meta"
          /\ fs[j].sync.calendar_event_id = None

\* The fingerprint a record has now, from its five inputs.
Fingerprint(doc) ==
    <<doc.name, normalize_priority(doc.priority), doc.status, doc.deadline,
      sorted(doc.labels)>>

\* The gateway call, if any, that this step adds to the run's calls.
Issued == SubSeq(calls', Len(calls) + 1, Len(calls'))

\* C17: for an active task without an entry the run attempts exactly one
\* create; a failed create writes no entry, leaves the record file alone and
\* the task is counted in the run's errors, so that every later run tries
\* again; a successful create writes an entry with the fresh fingerprint.
C17_CreateRetry ==
    [][\A k \in Keys :
         (Processes(k) /\ Active(fs[k]) /\ k \notin DOMAIN state.synced_threads) =>
            /\ Len(Issued) = 1
            /\ Issued[1].op = "create"
            /\ Issued[1].key = k
            /\ Issued[1].ext \in CmdFailures =>
                  /\ k \notin DOMAIN state'.synced_threads
                  /\ fs' = fs
                  /\ stats'["errors"] = stats["errors"] + 1
            /\ Issued[1].ext \in CmdSuccesses =>
                  /\ k \in DOMAIN state'.synced_threads
                  /\ state'.synced_threads[k].hash = Fingerprint(fs[k])]_vars

\* C18: for an active task whose entry has an addressable event id and a
\* fingerprint other than the record's, the run issues exactly one update and
\* no create; on success only the entry's fingerprint and updated-at change;
\* on failure the entry stays as it was and the task is counted in the run's
\* errors, so that every later run tries again.
C18_UpdateOutcome ==
    [][\A k \in Keys :
         (/\ Processes(k)
          /\ Active(fs[k])
          /\ k \in DOMAIN state.synced_threads
          /\ state.synced_threads[k].event_id \notin {None, "", CREATED_NO_ID}
          /\ state.synced_threads[k].hash # Fingerprint(fs[k])) =>
            LET entry == state.synced_threads[k] IN
            /\ Len(Issued) = 1
            /\ Issued[1].op = "update"
            /\ Issued[1].key = k
            /\ Issued[1].event_id = entry.event_id
            /\ fs' = fs
            /\ Issued[1].ret = "True" =>
                  state'.synced_threads =
                      [state.synced_threads EXCEPT
                         ![k] = [entry EXCEPT !.hash = Fingerprint(fs[k]),
                                              !.updated_at = run]]
            /\ Issued[1].ret # "True" =>
                  /\ state'.synced_threads = state.synced_threads
                  /\ stats'["errors"] = stats["errors"] + 1]_vars

\* C19: for an active task whose entry holds the sentinel and whose
\* fingerprint has changed, the run issues exactly one create and no update or
\* delete; a successful create replaces the entry by one with the new event
\* id and the current fingerprint; after a failed create the old entry is
\* unchanged and the task is counted in the run's errors.
C19_ReplacePath ==
    [][\A k \in Keys :
         (/\ Processes(k)
          /\ Active(fs[k])
          /\ k \in DOMAIN state.synced_threads
          /\ state.synced_threads[k].event_id = CREATED_NO_ID
          /\ state.synced_threads[k].hash # Fingerprint(fs[k])) =>
            /\ Len(Issued) = 1
            /\ Issued[1].op = "create"
            /\ Issued[1].key = k
            /\ Issued[1].ext \in CmdSuccesses =>
                  /\ state'.synced_threads[k].event_id = Issued[1].ret
                  /\ state'.synced_threads[k].hash = Fingerprint(fs[k])
                  /\ state'.synced_threads[k].synced_at = run
            /\ Issued[1].ext \in CmdFailures =>
                  /\ state'.synced_threads = state.synced_threads
                  /\ stats'["errors"] = stats["errors"] + 1]_vars

\* C20: for an active task whose entry's fingerprint equals the record's,
\* whatever the entry's event id, the run issues no gateway call for the task
\* and leaves the entry and the record file as they were.
C20_SkipFrame ==
    [][\A k \in Keys :
         (/\ Processes(k)
          /\ Active(fs[k])
          /\ k \in DOMAIN state.synced_threads
          /\ state.synced_threads[k].hash = Fingerprint(fs[k])) =>
            /\ results'[k] = "skipped"
            /\ calls' = calls
            /\ calendar' = calendar
            /\ state'.synced_threads = state.synced_threads
            /\ fs' = fs]_vars

\* In one run a task whose entry holds the sentinel and a task whose entry
\* holds an addressable id were both skipped on an unchanged fingerprint.
C20_Witness ==
    /\ pc = "sync"
    /\ calls = <<>>
    /\ \E k, j \in Keys :
          /\ results[k] = "skipped" /\ results[j] = "skipped"
          /\ Active(fs[k]) /\ Active(fs[j])
          /\ k \in DOMAIN state0 /\ j \in DOMAIN state0
          /\ state0[k].event_id = CREATED_NO_ID
          /\ state0[j].event_id \notin {None, "", CREATED_NO_ID}
          /\ state0[k].hash = Fingerprint(fs[k])
          /\ state0[j].hash = Fingerprint(fs[j])
          /\ state.synced_threads = state0


\* The position of a key in the sorted listing.
KeyIndex(k) == CHOOSE i \in 1..Len(KeyOrder) : KeyOrder[i] = k

\* The keys main's loop has gone through so far in this run.
Processed == {k \in Keys : results[k] # "none"}

\* C21: within a run the orphan pass's gateway calls come before every
\* per-task call, the tasks are processed one at a time in sorted key order,
\* nothing is persisted between tasks, and the run ends with the state
\* persisted, once, after the last task.
C21_RunOrdering ==
    [][/\ (pc = "cleanup" /\ Len(calls') > Len(calls)) =>
              /\ Processed = {}
              /\ Len(Issued) = 1
              /\ Issued[1].op = "delete"
       /\ \A k \in Keys : Processes(k) =>
              /\ orphaned = {}
              /\ Processed' = Processed \cup {k}
              /\ \A j \in Keys : fs[j].kind # "nofile" =>
                    (j \in Processed <=> KeyIndex(j) < KeyIndex(k))
       /\ disk' # disk =>
              \/ /\ pc = "sync"
                 /\ pc' = "saving"
                 /\ \A j \in Keys : fs[j].kind # "nofile" => j \in Processed
              \/ pc = "saving" /\ pc' = "done"
       /\ (pc \notin {"done", "aborted"} /\ pc' \in {"done", "aborted"}) =>
              disk' = [kind |-> "full", data |-> state']
      ]_vars

\* The identifiers a sequence of gateway calls obtained from creates for k.
CreatedIds(log, k) ==
    {log[i].ret : i \in {j \in 1..Len(log) :
        /\ log[j].op = "create"
        /\ log[j].key = k
        /\ log[j].ret \notin {None, CREATED_NO_ID, RAISED}}}

\* The event ids the persisted state tracks.
TrackedIds == {disk.data.synced_threads[k].event_id :
                  k \in DOMAIN disk.data.synced_threads}

\* C22: when two processes have run concurrently on the same files, the
\* persisted state is the whole state of one of them, the one that saved
\* last, and nothing of the other's; where both created an event for a task,
\* one of the two events is live and tracked by no entry.
C22_LastWriterWins ==
    (pc = "done" /\ peer.pc = "done") =>
        /\ disk.kind = "full"
        /\ disk.data \in {state, peer.state}
        /\ \A k \in Keys :
              (CreatedIds(calls, k) # {} /\ CreatedIds(peer.calls, k) # {}) =>
                 \E e \in calendar :
                    /\ e.key = k
                    /\ e.id \in CreatedIds(calls, k) \cup CreatedIds(peer.calls, k)
                    /\ e.id \notin TrackedIds

\* Both processes loaded a state without entry for an active task, both
\* created an event for it and both saved: two live events, one entry.
C22_Witness ==
    /\ pc = "done"
    /\ peer.pc = "done"
    /\ \E k \in Keys :
          /\ Active(fs[k])
          /\ k \notin DOMAIN state0
          /\ k \notin DOMAIN peer.state0
          /\ CreatedIds(calls, k) # {}
          /\ CreatedIds(peer.calls, k) # {}
          /\ Cardinality({e \in calendar : e.key = k}) = 2
          /\ k \in DOMAIN disk.data.synced_threads
          /\ state.synced_threads[k] # peer.state.synced_threads[k]

\* C23: when every run completes and every gateway call succeeds, after each
\* run every persisted entry names one live event of its key and every live
\* event is named by the entry of its key.
C23_EntriesMatchEvents ==
    pc \in {"idle", "done"} =>
        LET entries == disk.data.synced_threads IN
        /\ \A k \in DOMAIN entries :
              /\ Cardinality({e \in calendar : e.id = entries[k].event_id}) = 1
              /\ [id |-> entries[k].event_id, key |-> k] \in calendar
        /\ \A e \in calendar :
              /\ e.key \in DOMAIN entries
              /\ entries[e.key].event_id = e.id

\* A run has just completed after events were created and one was deleted:
\* one entry and one live event are left.
C23_Witness ==
    /\ pc = "done"
    /\ calls # <<>>
    /\ DOMAIN disk.data.synced_threads # {}
    /\ calendar # {}
    /\ Cardinality(calendar) < nextId - 1

\* The step in which the process is killed inside main's loop, after the
\* creates of the keys in lost' and before save_state is called.
KilledAfterCreate == pc = "sync" /\ pc' = "idle" /\ lost' # {}

\* What the create for k left outside the process: a live event of k and
\* the id (or the sentinel) written back into the record.
CreateLeft(k) ==
    /\ \E e \in calendar' : e.key = k
    /\ fs'[k].kind = "meta"
    /\ fs'[k].sync.calendar_event_id # None
    /\ Addressable(fs'[k].sync.calendar_event_id) =>
          /\ [id |-> fs'[k].sync.calendar_event_id, key |-> k] \in calendar'
          /\ \A j \in DOMAIN disk'.data.synced_threads :
                disk'.data.synced_threads[j].event_id # fs'[k].sync.calendar_event_id

\* The next run gets to k, whose record is as the killed run left it: it
\* issues one create for k, and a create that succeeds leaves at least two
\* live events of k.
CreatedAgain(k) ==
    /\ Len(Issued) = 1
    /\ Issued[1].op = "create"
    /\ Issued[1].key = k
    /\ run_calendar_command(Issued[1].ext).success =>
          Cardinality({e \in calendar' : e.key = k}) >= 2

\* C24 as stated: when the process is killed after a successful create for a
\* task and before the state is saved, the persisted state has no entry for
\* the task while the event exists and the record carries the written-back
\* id; the next run issues another create for the task, which leaves two
\* live events for its key.
C24_CrashLosesCreate ==
    [][/\ KilledAfterCreate =>
             \A k \in lost' :
                /\ k \notin DOMAIN disk'.data.synced_threads
                /\ CreateLeft(k)
       /\ \A k \in lost : Processes(k) => CreatedAgain(k)
      ]_vars

\* C24, amended: the persisted state is the one loaded at the start of the
\* killed run; for the task it has no entry, or still the entry with the
\* sentinel that the create was replacing, never the new event; the event
\* exists and the record carries the written-back id; the next run issues
\* another create for the task, which leaves at least two live events.
C24_CrashLosesCreate_Amended ==
    [][/\ KilledAfterCreate =>
             /\ disk' = disk
             /\ disk.kind # "partial"
             /\ disk.data.synced_threads = state0
             /\ \A k \in lost' :
                   /\ k \in DOMAIN state0 => state0[k].event_id = CREATED_NO_ID
                   /\ CreateLeft(k)
       /\ \A k \in lost : Processes(k) => CreatedAgain(k)
      ]_vars

\* The run after the killed one has created a second event for the task:
\* the task had no entry and two of its events are live.
C24_Witness ==
    /\ pc = "sync"
    /\ \E k \in lost :
          /\ k \notin DOMAIN state0
          /\ results[k] = "created"
          /\ Cardinality({e \in calendar : e.key = k}) = 2
          /\ Addressable(state.synced_threads[k].event_id)

\* The step in which sync_thread_to_calendar creates or updates k's event.
Pushes(k) == Processes(k) /\ results'[k] \in {"created", "updated"}

\* C25: the priority stored in an entry is the normalized priority of the
\* record at the last successful create or update for its key: each such
\* step stores it, and no other step changes it.
C25_PrioritySnapshot ==
    [][\A k \in Keys :
          /\ Pushes(k) =>
                state'.synced_threads[k].priority = normalize_priority(fs[k].priority)
          /\ (~Pushes(k) /\ k \in DOMAIN state.synced_threads
                         /\ k \in DOMAIN state'.synced_threads) =>
                state'.synced_threads[k].priority = state.synced_threads[k].priority
      ]_vars

\* A record of terminal status whose key had no entry when the run loaded
\* the state, once main's loop has gone through it.
TerminalUntracked(k) ==
    /\ pc \in {"sync", "saving", "done"}
    /\ results[k] # "none"
    /\ fs[k].kind = "meta"
    /\ IsTerminal(StatusOf(fs[k]))
    /\ k \notin DOMAIN state0

\* C26: a run issues at most one gateway call for a key, the orphan pass and
\* the per-task pass taken together, and for a terminal task without entry
\* it issues none and writes no entry.
C26_OneCallPerKey ==
    \A k \in Keys :
       /\ Len(CallsFor(k)) <= 1
       /\ TerminalUntracked(k) =>
             /\ CallsFor(k) = <<>>
             /\ results[k] = "skipped"
             /\ k \notin DOMAIN state.synced_threads

\* A completed run that deleted the event of an orphaned key in the orphan
\* pass and skipped a terminal task that had no entry.
C26_Witness ==
    /\ pc = "done"
    /\ \E k, j \in Keys :
          /\ fs[k].kind = "nofile"
          /\ Len(CallsFor(k)) = 1
          /\ CallsFor(k)[1].op = "delete"
          /\ TerminalUntracked(j)
====
